---- MODULE Spec2Model ----
(***************************************************************************)
(* Model of the interval_set library (libinterval_set/interval_set.rs).    *)
(*                                                                         *)
(* An Interval is the pair <<lo, hi>>; an IntervalSet is the sequence of   *)
(* its intervals (the field `intervals`).  Machine integers are unsigned   *)
(* words with greatest value U32_MAX; the word is scaled down so that the  *)
(* whole domain can be enumerated, and every +1 / -1 of the source is      *)
(* computed modulo U32_MAX + 1.  An arithmetic overflow panics in a build  *)
(* with overflow checks ("debug") and wraps around in a build without      *)
(* them ("release"); the variable `build` is the build the program runs.   *)
(*                                                                         *)
(* A fallible computation returns a record                                 *)
(*     [panic |-> BOOLEAN, ovf |-> BOOLEAN, set / val |-> ...]             *)
(* panic: the call panicked (no value); ovf: some addition or subtraction  *)
(* left the word range during the call.                                    *)
(***************************************************************************)
EXTENDS Integers, Sequences, FiniteSets, TLC

\* Greatest value of the (scaled) unsigned word: u32::max_value().
U32_MAX == 6

\* Greatest number of tokens of a parsed text.
MaxTokens == 2

Modulus == U32_MAX + 1

Builds == {"debug", "release"}

\* Wrapping addition and subtraction of machine words, and their overflow tests.
WrapAdd(x, y) == (x + y) % Modulus
WrapSub(x, y) == (x - y + Modulus) % Modulus
AddOverflows(x, y) == x + y > U32_MAX
SubOverflows(x, y) == x < y

Min(x, y) == IF x <= y THEN x ELSE y
Max(x, y) == IF x >= y THEN x ELSE y

-----------------------------------------------------------------------------
(* Interval *)

\* Interval::is_valid
is_valid(intv) == intv[1] <= intv[2]

\* Interval::new(begin, end): the interval, or a panic when it is not valid
new(begin, end) ==
    [panic |-> ~is_valid(<<begin, end>>), val |-> <<begin, end>>]

\* Interval::whole
whole == <<0, U32_MAX>>

\* derived Ord of Interval: lexicographic on (lo, hi)
IntervalLess(x, y) == x[1] < y[1] \/ (x[1] = y[1] /\ x[2] < y[2])

\* range_size without the + 1
range_size_exclusive(build, intv) ==
    LET ovf == SubOverflows(intv[2], intv[1])
    IN  [panic |-> (build = "debug" /\ ovf), ovf |-> ovf, val |-> WrapSub(intv[2], intv[1])]

\* Interval::range_size: self.1 - self.0 + 1
range_size(build, intv) ==
    LET d   == WrapSub(intv[2], intv[1])
        ovf == SubOverflows(intv[2], intv[1]) \/ AddOverflows(d, 1)
    IN  [panic |-> (build = "debug" /\ ovf), ovf |-> ovf, val |-> WrapAdd(d, 1)]

-----------------------------------------------------------------------------
(* Vec helpers *)

\* Vec::remove(i), positions counted from 1
RemoveAt(s, i) == [k \in 1..(Len(s) - 1) |-> IF k < i THEN s[k] ELSE s[k + 1]]

\* insertion of x into the sorted sequence s, after the elements not greater
RECURSIVE SortedInsert(_, _)
SortedInsert(s, x) ==
    IF s = << >> THEN <<x>>
    ELSE IF IntervalLess(x, s[1]) THEN <<x>> \o s
    ELSE <<s[1]>> \o SortedInsert(Tail(s), x)

\* Vec::sort under the derived order
RECURSIVE Sort(_)
Sort(s) == IF s = << >> THEN << >> ELSE SortedInsert(Sort(Tail(s)), s[1])

-----------------------------------------------------------------------------
(* IntervalSet::insert *)

\* IntervalSet::empty
empty == << >>

\* IntervalSet::is_empty
is_empty(S) == Len(S) = 0

Panicked == [panic |-> TRUE, ovf |-> FALSE, set |-> << >>]

\* insert whose break test reads newsup < intv.0: an interval that begins
\* right after the candidate is left beside it
RECURSIVE InsertLoopBreakEarly(_, _, _)
InsertLoopBreakEarly(clone, pos, st) ==
    IF pos > Len(clone) THEN st
    ELSE
      LET intv == clone[pos]
      IN  IF st.newinf > WrapAdd(intv[2], 1)
          THEN InsertLoopBreakEarly(clone, pos + 1, st)
          ELSE
            IF st.newsup < intv[1]
            THEN st
            ELSE InsertLoopBreakEarly(clone, pos + 1,
                   [intervals |-> RemoveAt(st.intervals, pos - st.idx_shift),
                    idx_shift |-> st.idx_shift + 1,
                    newinf    |-> Min(st.newinf, intv[1]),
                    newsup    |-> Max(st.newsup, intv[2]),
                    ovf       |-> st.ovf])

\* insert that stops at the first interval it absorbs
RECURSIVE InsertLoopAbsorbOne(_, _, _)
InsertLoopAbsorbOne(clone, pos, st) ==
    IF pos > Len(clone) THEN st
    ELSE
      LET intv == clone[pos]
      IN  IF st.newinf > WrapAdd(intv[2], 1)
          THEN InsertLoopAbsorbOne(clone, pos + 1, st)
          ELSE
            IF WrapAdd(st.newsup, 1) < intv[1]
            THEN st
            ELSE [intervals |-> RemoveAt(st.intervals, pos - st.idx_shift),
                  idx_shift |-> st.idx_shift + 1,
                  newinf    |-> Min(st.newinf, intv[1]),
                  newsup    |-> Max(st.newsup, intv[2]),
                  ovf       |-> st.ovf]

\* The loop of insert over the clone of self.intervals, from position pos
\* (counted from 1).  st holds self.intervals, idx_shift, newinf, newsup and
\* whether a hi + 1 has overflowed so far.
RECURSIVE InsertLoop(_, _, _)
InsertLoop(clone, pos, st) ==
    IF pos > Len(clone) THEN st
    ELSE
      LET intv == clone[pos]
          o1   == AddOverflows(intv[2], 1)
      IN  IF st.newinf > WrapAdd(intv[2], 1)
          THEN InsertLoop(clone, pos + 1, [st EXCEPT !.ovf = @ \/ o1])
          ELSE
            LET o2 == AddOverflows(st.newsup, 1) IN
            IF WrapAdd(st.newsup, 1) < intv[1]
            THEN [st EXCEPT !.ovf = @ \/ o1 \/ o2]
            ELSE InsertLoop(clone, pos + 1,
                   [intervals |-> RemoveAt(st.intervals, pos - st.idx_shift),
                    idx_shift |-> st.idx_shift + 1,
                    newinf    |-> Min(st.newinf, intv[1]),
                    newsup    |-> Max(st.newsup, intv[2]),
                    ovf       |-> st.ovf \/ o1 \/ o2])

\* IntervalSet::insert(&mut self, element): the new value of self
insert(build, S, element) ==
    LET st == InsertLoop(S, 1, [intervals |-> S, idx_shift |-> 0,
                                newinf |-> element[1], newsup |-> element[2],
                                ovf |-> FALSE])
    IN  IF build = "debug" /\ st.ovf THEN [Panicked EXCEPT !.ovf = TRUE]
        ELSE IF ~is_valid(<<st.newinf, st.newsup>>) THEN [Panicked EXCEPT !.ovf = st.ovf]
        ELSE [panic |-> FALSE, ovf |-> st.ovf,
              set   |-> Sort(Append(st.intervals, <<st.newinf, st.newsup>>))]


-----------------------------------------------------------------------------
(* Construction from collections *)

\* impl ToIntervalSet for Vec<Interval>: validate and insert each element in
\* turn into res, starting at position pos
RECURSIVE VecToIntervalSetFrom(_, _, _, _)
VecToIntervalSetFrom(build, vec, pos, res) ==
    IF res.panic \/ pos > Len(vec) THEN res
    ELSE IF ~is_valid(vec[pos]) THEN [Panicked EXCEPT !.ovf = res.ovf]
    ELSE LET r == insert(build, res.set, vec[pos])
         IN  VecToIntervalSetFrom(build, vec, pos + 1,
                                  [r EXCEPT !.ovf = @ \/ res.ovf])

vec_to_interval_set(build, vec) ==
    VecToIntervalSetFrom(build, vec, 1, [panic |-> FALSE, ovf |-> FALSE, set |-> empty])

\* impl ToIntervalSet for Vec<(u32, u32)>: check begin <= end and insert
\* Interval(begin, end) for each tuple in turn, starting at position pos
RECURSIVE TuplesToIntervalSetFrom(_, _, _, _)
TuplesToIntervalSetFrom(build, vec, pos, res) ==
    IF res.panic \/ pos > Len(vec) THEN res
    ELSE IF vec[pos][1] > vec[pos][2] THEN [Panicked EXCEPT !.ovf = res.ovf]
    ELSE LET r == insert(build, res.set, <<vec[pos][1], vec[pos][2]>>)
         IN  TuplesToIntervalSetFrom(build, vec, pos + 1,
                                     [r EXCEPT !.ovf = @ \/ res.ovf])

tuples_to_interval_set(build, vec) ==
    TuplesToIntervalSetFrom(build, vec, 1, [panic |-> FALSE, ovf |-> FALSE, set |-> empty])

\* impl ToIntervalSet for Interval
interval_to_interval_set(intv) ==
    IF is_valid(intv) THEN [panic |-> FALSE, ovf |-> FALSE, set |-> <<intv>>]
    ELSE Panicked

-----------------------------------------------------------------------------
(* flatten / unflatten *)

\* IntervalSet::flatten: the markers lo, hi + 1 of every interval
RECURSIVE FlattenVec(_)
FlattenVec(S) ==
    IF S = << >> THEN << >>
    ELSE <<S[1][1], WrapAdd(S[1][2], 1)>> \o FlattenVec(Tail(S))

FlattenOverflows(S) == \E i \in 1..Len(S) : AddOverflows(S[i][2], 1)

flatten(build, S) ==
    [panic |-> (build = "debug" /\ FlattenOverflows(S)),
     ovf   |-> FlattenOverflows(S),
     val   |-> FlattenVec(S)]

\* The loop of unflatten from index i (counted from 1): the intervals
\* Interval(vec[i], vec[i + 1] - 1).  Indexing past the end panics.
RECURSIVE UnflattenLoop(_, _, _)
UnflattenLoop(vec, i, st) ==
    IF i > Len(vec) THEN st
    ELSE IF i + 1 > Len(vec) THEN [st EXCEPT !.panic = TRUE]
    ELSE UnflattenLoop(vec, i + 2,
            [st EXCEPT !.ovf = @ \/ SubOverflows(vec[i + 1], 1),
                       !.val = Append(@, <<vec[i], WrapSub(vec[i + 1], 1)>>)])

\* IntervalSet::unflatten
unflatten(build, vec) ==
    LET st == UnflattenLoop(vec, 1, [panic |-> FALSE, ovf |-> FALSE, val |-> << >>])
    IN  IF st.panic \/ (build = "debug" /\ st.ovf)
        THEN [Panicked EXCEPT !.ovf = st.ovf]
        ELSE LET r == vec_to_interval_set(build, st.val)
             IN  [r EXCEPT !.ovf = @ \/ st.ovf]

-----------------------------------------------------------------------------
(* merge *)

\* Iterator::max / Iterator::min over a non-empty Vec<u32>
SeqMax(s) == CHOOSE m \in {s[i] : i \in 1..Len(s)} : \A j \in 1..Len(s) : s[j] <= m
SeqMin(s) == CHOOSE m \in {s[i] : i \in 1..Len(s)} : \A j \in 1..Len(s) : m <= s[j]

\* The closures with the operands of difference exchanged
keep_operator_swapped(op, lin, rin) ==
    CASE op = "union"               -> lin \/ rin
      [] op = "intersection"        -> lin /\ rin
      [] op = "difference"          -> rin /\ ~lin
      [] op = "symetric_difference" -> lin # rin

\* The closures handed to merge by union, intersection, difference and
\* symetric_difference
keep_operator(op, lin, rin) ==
    CASE op = "union"               -> lin \/ rin
      [] op = "intersection"        -> lin /\ rin
      [] op = "difference"          -> lin /\ ~rin
      [] op = "symetric_difference" -> lin # rin

Ops == {"union", "intersection", "difference", "symetric_difference"}

\* SweepStep with the second advance under an `else`: when both heads stand
\* at scan only the left one moves on
SweepStepElseIf(op, lflat, rflat, st) ==
    LET lval  == lflat[st.lpos]
        rval  == rflat[st.rpos]
        lin   == ~((st.scan < lval) # ((st.lpos - 1) % 2 # 0))
        rin   == ~((st.scan < rval) # ((st.rpos - 1) % 2 # 0))
        inres == keep_operator(op, lin, rin)
        res   == IF inres # (Len(st.res) % 2 # 0) THEN Append(st.res, st.scan) ELSE st.res
        ladv  == st.scan = lval
        radv  == ~ladv /\ st.scan = rval
        lpos  == IF ladv THEN st.lpos + 1 ELSE st.lpos
        rpos  == IF radv THEN st.rpos + 1 ELSE st.rpos
    IN  IF lpos > Len(lflat) \/ rpos > Len(rflat)
        THEN [st EXCEPT !.res = res, !.panic = TRUE]
        ELSE [scan |-> Min(lflat[lpos], rflat[rpos]), lpos |-> lpos, rpos |-> rpos,
              res |-> res, panic |-> FALSE]

\* One iteration of the while loop of merge.  lflat and rflat end with the
\* sentinel; lpos and rpos are the positions (from 1) of lhead and rhead, so
\* the enumerate index of a head is its position minus one.
SweepStep(op, lflat, rflat, st) ==
    LET lval  == lflat[st.lpos]
        rval  == rflat[st.rpos]
        lin   == ~((st.scan < lval) # ((st.lpos - 1) % 2 # 0))
        rin   == ~((st.scan < rval) # ((st.rpos - 1) % 2 # 0))
        inres == keep_operator(op, lin, rin)
        res   == IF inres # (Len(st.res) % 2 # 0) THEN Append(st.res, st.scan) ELSE st.res
        ladv  == st.scan = lval
        radv  == st.scan = rval
        lpos  == IF ladv THEN st.lpos + 1 ELSE st.lpos
        rpos  == IF radv THEN st.rpos + 1 ELSE st.rpos
    IN  IF lpos > Len(lflat) \/ rpos > Len(rflat)
        THEN [st EXCEPT !.res = res, !.panic = TRUE]
        ELSE [scan |-> Min(lflat[lpos], rflat[rpos]), lpos |-> lpos, rpos |-> rpos,
              res |-> res, panic |-> FALSE]

\* while scan < sentinel { ... }
RECURSIVE Sweep(_, _, _, _, _)
Sweep(op, lflat, rflat, sentinel, st) ==
    IF st.panic \/ ~(st.scan < sentinel) THEN st
    ELSE Sweep(op, lflat, rflat, sentinel, SweepStep(op, lflat, rflat, st))

\* merge up to the while loop, for operands not both empty: lflat and rflat
\* with the sentinel pushed, the sentinel, the first scan, the heads at the
\* first markers and the empty res
SweepStart(build, self, rhs) ==
    LET lf == flatten(build, self)
        rf == flatten(build, rhs)
        top == SeqMax(lf.val \o rf.val)
        sentinel == WrapAdd(top, 1)
        lflat == Append(lf.val, sentinel)
        rflat == Append(rf.val, sentinel)
    IN  [ovf      |-> lf.ovf \/ rf.ovf \/ AddOverflows(top, 1),
         lflat    |-> lflat,
         rflat    |-> rflat,
         sentinel |-> sentinel,
         st       |-> [scan |-> Min(SeqMin(lflat), SeqMin(rflat)), lpos |-> 1,
                       rpos |-> 1, res |-> << >>, panic |-> FALSE]]

\* IntervalSet::merge(self, rhs, keep_operator)
merge(build, op, self, rhs) ==
    IF is_empty(self) /\ is_empty(rhs) THEN [panic |-> FALSE, ovf |-> FALSE, set |-> self]
    ELSE
      LET lf == flatten(build, self)
          rf == flatten(build, rhs)
          fovf == lf.ovf \/ rf.ovf
          top == SeqMax(lf.val \o rf.val)
          sovf == AddOverflows(top, 1)
          sentinel == WrapAdd(top, 1)
          lflat == Append(lf.val, sentinel)
          rflat == Append(rf.val, sentinel)
          scan0 == Min(SeqMin(lflat), SeqMin(rflat))
          st == Sweep(op, lflat, rflat, sentinel,
                      [scan |-> scan0, lpos |-> 1, rpos |-> 1, res |-> << >>,
                       panic |-> FALSE])
      IN  IF build = "debug" /\ (fovf \/ sovf) THEN [Panicked EXCEPT !.ovf = TRUE]
          ELSE IF st.panic THEN [Panicked EXCEPT !.ovf = fovf \/ sovf]
          ELSE LET r == unflatten(build, st.res)
               IN  [r EXCEPT !.ovf = @ \/ fovf \/ sovf]

\* IntervalSet::union, intersection, difference, symetric_difference
union(build, self, rhs) == merge(build, "union", self, rhs)
intersection(build, self, rhs) == merge(build, "intersection", self, rhs)
difference(build, self, rhs) == merge(build, "difference", self, rhs)
symetric_difference(build, self, rhs) == merge(build, "symetric_difference", self, rhs)

-----------------------------------------------------------------------------
(* Queries *)

\* Option<T>: None is the empty sequence, Some(x) is <<x>>
None == << >>
Some(x) == <<x>>

\* The loop of max over self.iter(), from position pos: st.max is the
\* greatest intv.1 - intv.0 seen so far (usize::min_value() at first) and
\* st.res the interval that set it.
RECURSIVE MaxLoop(_, _, _)
MaxLoop(S, pos, st) ==
    IF pos > Len(S) THEN st
    ELSE LET intv  == S[pos]
             curr_ == WrapSub(intv[2], intv[1])
             ovf   == st.ovf \/ SubOverflows(intv[2], intv[1])
         IN  IF curr_ > st.max
             THEN MaxLoop(S, pos + 1, [max |-> curr_, res |-> Some(intv), ovf |-> ovf])
             ELSE MaxLoop(S, pos + 1, [st EXCEPT !.ovf = ovf])

\* IntervalSet::max
max(build, S) ==
    IF is_empty(S) THEN [panic |-> FALSE, ovf |-> FALSE, val |-> None]
    ELSE LET st == MaxLoop(S, 1, [max |-> 0, res |-> None, ovf |-> FALSE])
         IN  [panic |-> (build = "debug" /\ st.ovf), ovf |-> st.ovf, val |-> st.res]

\* The fold of size: acc + x.range_size() over the intervals from position pos
RECURSIVE SizeFold(_, _, _, _)
SizeFold(build, S, pos, acc) ==
    IF acc.panic \/ pos > Len(S) THEN acc
    ELSE LET r   == range_size(build, S[pos])
             ovf == acc.ovf \/ r.ovf \/ AddOverflows(acc.val, r.val)
         IN  SizeFold(build, S, pos + 1,
                      [panic |-> (build = "debug" /\ ovf), ovf |-> ovf,
                       val |-> WrapAdd(acc.val, r.val)])

\* IntervalSet::size
size(build, S) ==
    IF is_empty(S) THEN [panic |-> FALSE, ovf |-> FALSE, val |-> 0]
    ELSE SizeFold(build, S, 1, [panic |-> FALSE, ovf |-> FALSE, val |-> 0])

-----------------------------------------------------------------------------
(* Textual description.  A text is the sequence of its whitespace-separated  *)
(* tokens (what split_whitespace yields); a token is a sequence of           *)
(* characters.                                                               *)

DigitChars == <<"0", "1", "2", "3", "4", "5", "6", "7", "8", "9">>

IsDigit(c) == \E d \in 1..Len(DigitChars) : DigitChars[d] = c
DigitVal(c) == (CHOOSE d \in 1..Len(DigitChars) : DigitChars[d] = c) - 1

\* The decimal value of a sequence of digits
RECURSIVE DecimalValue(_)
DecimalValue(ds) ==
    IF ds = << >> THEN 0
    ELSE 10 * DecimalValue(SubSeq(ds, 1, Len(ds) - 1)) + DigitVal(ds[Len(ds)])

\* u32::from_str: an optional "+", then at least one digit, the value within
\* the word; Some(value) or None for Err
from_str(str) ==
    LET ds == IF str # << >> /\ str[1] = "+" THEN Tail(str) ELSE str
    IN  IF ds = << >> \/ (\E i \in 1..Len(ds) : ~IsDigit(ds[i])) THEN None
        ELSE IF DecimalValue(ds) > U32_MAX THEN None
        ELSE Some(DecimalValue(ds))

\* str::contains("-")
contains_dash(token) == \E i \in 1..Len(token) : token[i] = "-"

\* str::split('-'): the pieces between the dashes
RECURSIVE split_dash(_)
split_dash(token) ==
    IF ~contains_dash(token) THEN <<token>>
    ELSE LET i == CHOOSE k \in 1..Len(token) :
                     token[k] = "-" /\ \A j \in 1..(k - 1) : token[j] # "-"
         IN  <<SubSeq(token, 1, i - 1)>> \o split_dash(SubSeq(token, i + 1, Len(token)))

\* The interval one token stands for, through Interval::new; panic when a
\* piece does not parse (unwrap of Err) or when the bounds are not valid
token_interval(token) ==
    IF contains_dash(token)
    THEN LET bounds == [k \in 1..Len(split_dash(token)) |-> from_str(split_dash(token)[k])]
         IN  IF \E k \in 1..Len(bounds) : bounds[k] = None
             THEN [panic |-> TRUE, val |-> <<0, 0>>]
             ELSE [panic |-> ~is_valid(<<bounds[1][1], bounds[2][1]>>),
                   val   |-> <<bounds[1][1], bounds[2][1]>>]
    ELSE LET bound == from_str(token)
         IN  IF bound = None THEN [panic |-> TRUE, val |-> <<0, 0>>]
             ELSE [panic |-> FALSE, val |-> <<bound[1], bound[1]>>]

\* impl ToIntervalSet for String: the loop over the tokens from position pos,
\* result = result.union(interval.to_interval_set())
RECURSIVE StringToIntervalSetFrom(_, _, _, _)
StringToIntervalSetFrom(build, tokens, pos, result) ==
    IF result.panic \/ pos > Len(tokens) THEN result
    ELSE LET t == token_interval(tokens[pos])
         IN  IF t.panic THEN [Panicked EXCEPT !.ovf = result.ovf]
             ELSE LET r == union(build, result.set, interval_to_interval_set(t.val).set)
                  IN  StringToIntervalSetFrom(build, tokens, pos + 1,
                                              [r EXCEPT !.ovf = @ \/ result.ovf])

string_to_interval_set(build, tokens) ==
    StringToIntervalSetFrom(build, tokens, 1,
                            [panic |-> FALSE, ovf |-> FALSE, set |-> empty])

-----------------------------------------------------------------------------
(* The program: two owned sets a and b, and the record `last` of the call   *)
(* in progress: its name, its operands as they were before the call, and    *)
(* what it returned.  A panic ends the program.                              *)

VARIABLES build, a, b, last, nops

vars == <<build, a, b, last, nops>>

\* Greatest number of calls of a run that reaches the domain maximum.
MaxOps == 2

\* The valid intervals with bounds at most maxb
Intervals(maxb) == {<<lo, hi>> : lo \in 0..maxb, hi \in 0..maxb} \ {<<lo, hi>> \in (0..maxb) \X (0..maxb) : lo > hi}

\* Bounds for which no marker and no sentinel of merge leaves the word
MergeBound == U32_MAX - 2

\* Bounds for which no hi + 1 of insert leaves the word
InsertBound == U32_MAX - 1

NoOp == [op |-> "none", lhs |-> << >>, rhs |-> << >>, arg |-> << >>,
         res |-> [panic |-> FALSE, ovf |-> FALSE, set |-> << >>]]

Init ==
    /\ build \in Builds
    /\ a = empty
    /\ b = empty
    /\ last = NoOp
    /\ nops = 0

Idle == last.op = "none"

\* a.insert(e)
InsertA(e) ==
    /\ Idle
    /\ LET r == insert(build, a, e)
       IN  /\ a' = IF r.panic THEN a ELSE r.set
           /\ last' = [op |-> "insert", lhs |-> a, rhs |-> << >>, arg |-> e, res |-> r]
    /\ UNCHANGED <<build, b>>

\* b.insert(e)
InsertB(e) ==
    /\ Idle
    /\ LET r == insert(build, b, e)
       IN  /\ b' = IF r.panic THEN b ELSE r.set
           /\ last' = [op |-> "insert", lhs |-> b, rhs |-> << >>, arg |-> e, res |-> r]
    /\ UNCHANGED <<build, a>>

\* a = a.<op>(b.clone()) for the four operations built on merge
Merge(op) ==
    /\ Idle
    /\ LET r == merge(build, op, a, b)
       IN  /\ a' = IF r.panic THEN a ELSE r.set
           /\ last' = [op |-> op, lhs |-> a, rhs |-> b, arg |-> << >>, res |-> r]
    /\ UNCHANGED <<build, b>>

Union == Merge("union")
Intersection == Merge("intersection")
Difference == Merge("difference")
SymetricDifference == Merge("symetric_difference")

\* a.max()
MaxA ==
    /\ Idle
    /\ last' = [op |-> "max", lhs |-> a, rhs |-> << >>, arg |-> << >>, res |-> max(build, a)]
    /\ UNCHANGED <<build, a, b>>

\* a.size()
SizeA ==
    /\ Idle
    /\ last' = [op |-> "size", lhs |-> a, rhs |-> << >>, arg |-> << >>, res |-> size(build, a)]
    /\ UNCHANGED <<build, a, b>>

\* a = text.to_interval_set()
Parse(text) ==
    /\ Idle
    /\ LET r == string_to_interval_set(build, text)
       IN  /\ a' = IF r.panic THEN a ELSE r.set
           /\ last' = [op |-> "parse", lhs |-> << >>, rhs |-> << >>, arg |-> text, res |-> r]
    /\ UNCHANGED <<build, b>>

\* The call has returned and its result has been looked at; after a panic
\* there is no next call.
Return ==
    /\ ~Idle
    /\ ~last.res.panic
    /\ last' = NoOp
    /\ UNCHANGED <<build, a, b, nops>>

\* Sets built by insert and combined by the four operations, every bound at
\* most U32_MAX - 2.
Next ==
    \/ \E e \in Intervals(MergeBound) : InsertA(e) /\ UNCHANGED nops
    \/ \E e \in Intervals(MergeBound) : InsertB(e) /\ UNCHANGED nops
    \/ Union /\ UNCHANGED nops
    \/ Intersection /\ UNCHANGED nops
    \/ Difference /\ UNCHANGED nops
    \/ SymetricDifference /\ UNCHANGED nops
    \/ MaxA /\ UNCHANGED nops
    \/ SizeA /\ UNCHANGED nops
    \/ Return

Spec == Init /\ [][Next]_vars

\* One set built by insert, every bound below U32_MAX.
NextInsert ==
    \/ \E e \in Intervals(InsertBound) : InsertA(e) /\ UNCHANGED nops
    \/ Return

SpecInsert == Init /\ [][NextInsert]_vars

\* The same program over the whole word, up to the domain maximum, for runs
\* of at most MaxOps calls.
Counted == nops < MaxOps /\ nops' = nops + 1

NextMax ==
    \/ \E e \in Intervals(U32_MAX) : InsertA(e) /\ Counted
    \/ \E e \in Intervals(U32_MAX) : InsertB(e) /\ Counted
    \/ Union /\ Counted
    \/ Intersection /\ Counted
    \/ Difference /\ Counted
    \/ SymetricDifference /\ Counted
    \/ Return

SpecMax == Init /\ [][NextMax]_vars

\* The character of the digit n
DigitChar(n) == DigitChars[n + 1]

\* Tokens "n" and "lo-hi" with numbers at most maxb
NumberTokens(maxb) == {<<DigitChar(n)>> : n \in 0..maxb}
DashTokens(maxb) == {<<DigitChar(lo), "-", DigitChar(hi)>> : lo \in 0..maxb, hi \in 0..maxb}

\* Tokens that are neither
OtherTokens == {<<"x">>, <<"1", "-">>, <<"-", "1">>, <<"0", "-", "1", "-", "2">>}

Tokens(maxb) == NumberTokens(maxb) \cup DashTokens(maxb) \cup OtherTokens

\* Texts of at most MaxTokens tokens
Texts(maxb) == UNION {[1..k -> Tokens(maxb)] : k \in 0..MaxTokens}

\* A program that parses one text, numbers up to the domain maximum.
NextParse ==
    \/ nops = 0 /\ Idle /\ \E text \in Texts(U32_MAX) : Parse(text) /\ nops' = 1
    \/ Return

SpecParse == Init /\ [][NextParse]_vars

\* Interval::new(begin, end); a and b are not touched
New(begin, end) ==
    /\ Idle
    /\ last' = [op |-> "new", lhs |-> a, rhs |-> b, arg |-> <<begin, end>>,
                res |-> new(begin, end)]
    /\ UNCHANGED <<build, a, b>>

\* b = vec.to_interval_set() for a Vec<Interval>
FromVec(vec) ==
    /\ Idle
    /\ LET r == vec_to_interval_set(build, vec)
       IN  /\ b' = IF r.panic THEN b ELSE r.set
           /\ last' = [op |-> "from_vec", lhs |-> a, rhs |-> b, arg |-> vec, res |-> r]
    /\ UNCHANGED <<build, a>>

\* b = vec.to_interval_set() for a Vec<(u32, u32)>
FromTuples(vec) ==
    /\ Idle
    /\ LET r == tuples_to_interval_set(build, vec)
       IN  /\ b' = IF r.panic THEN b ELSE r.set
           /\ last' = [op |-> "from_tuples", lhs |-> a, rhs |-> b, arg |-> vec, res |-> r]
    /\ UNCHANGED <<build, a>>

\* Greatest length of a collection a set is built from.
MaxVecLen == 2

\* Pairs of words, valid as an interval or not (Interval(lo, hi) and (lo, hi)
\* are built without a check)
Tuples == (0..U32_MAX) \X (0..U32_MAX)

\* Collections of at most MaxVecLen pairs
Vecs == UNION {[1..k -> Tuples] : k \in 0..MaxVecLen}

\* A program that holds one set a of at most one interval and then makes one
\* construction, over the whole word.
NextNew ==
    \/ nops = 0 /\ a = empty /\ \E e \in Intervals(U32_MAX) : InsertA(e) /\ UNCHANGED nops
    \/ nops = 0 /\ Idle /\ \E t \in Tuples : New(t[1], t[2]) /\ nops' = 1
    \/ nops = 0 /\ Idle /\ \E vec \in Vecs : FromVec(vec) /\ nops' = 1
    \/ nops = 0 /\ Idle /\ \E vec \in Vecs : FromTuples(vec) /\ nops' = 1
    \/ Return

SpecNew == Init /\ [][NextNew]_vars

\* a.clone().flatten()
Flatten ==
    /\ Idle
    /\ last' = [op |-> "flatten", lhs |-> a, rhs |-> << >>, arg |-> << >>,
                res |-> flatten(build, a)]
    /\ UNCHANGED <<build, a, b>>

\* a = IntervalSet::unflatten(vec) with the vec that flatten returned
Unflatten ==
    /\ last.op = "flatten"
    /\ ~last.res.panic
    /\ LET r == unflatten(build, last.res.val)
       IN  /\ a' = IF r.panic THEN a ELSE r.set
           /\ last' = [op |-> "unflatten", lhs |-> last.lhs, rhs |-> << >>,
                       arg |-> last.res.val, res |-> r]
    /\ UNCHANGED <<build, b>>

\* A set built by at most MaxOps calls of insert over the whole word,
\* flattened and unflattened.
NextFlatten ==
    \/ \E e \in Intervals(U32_MAX) : InsertA(e) /\ Counted
    \/ Flatten /\ UNCHANGED nops
    \/ Unflatten /\ UNCHANGED nops
    \/ Return

SpecFlatten == Init /\ [][NextFlatten]_vars

\* a.<op>(b.clone()) up to the while loop of merge: the early return for two
\* empty operands, or the flattened operands, the sentinel and the first scan
MergeBegin(op) ==
    /\ Idle
    /\ IF is_empty(a) /\ is_empty(b)
       THEN last' = [op |-> op, lhs |-> a, rhs |-> b, arg |-> << >>,
                     res |-> [panic |-> FALSE, ovf |-> FALSE, set |-> a]]
       ELSE LET s == SweepStart(build, a, b)
            IN  IF build = "debug" /\ s.ovf
                THEN last' = [op |-> op, lhs |-> a, rhs |-> b, arg |-> << >>,
                              res |-> [Panicked EXCEPT !.ovf = TRUE]]
                ELSE last' = [op |-> "sweep", lhs |-> a, rhs |-> b,
                              arg |-> [op |-> op, lflat |-> s.lflat, rflat |-> s.rflat,
                                       sentinel |-> s.sentinel, ovf |-> s.ovf],
                              res |-> s.st]
    /\ UNCHANGED <<build, a, b>>

\* The loop of merge is at its head
InSweep == last.op = "sweep" /\ ~last.res.panic

\* One iteration of the while loop of merge
SweepIter ==
    /\ InSweep
    /\ last.res.scan < last.arg.sentinel
    /\ last' = [last EXCEPT
                  !.res = SweepStep(last.arg.op, last.arg.lflat, last.arg.rflat, last.res)]
    /\ UNCHANGED <<build, a, b>>

\* The loop of merge has ended: a = IntervalSet::unflatten(res)
MergeEnd ==
    /\ InSweep
    /\ ~(last.res.scan < last.arg.sentinel)
    /\ LET r == unflatten(build, last.res.res)
       IN  /\ a' = IF r.panic THEN a ELSE r.set
           /\ last' = [op |-> last.arg.op, lhs |-> last.lhs, rhs |-> last.rhs,
                       arg |-> << >>, res |-> [r EXCEPT !.ovf = @ \/ last.arg.ovf]]
    /\ UNCHANGED <<build, b>>

\* Sets built by insert, every bound at most U32_MAX - 2, and combined by
\* the four operations, merge taken one iteration of its loop at a time.
NextSweep ==
    \/ \E e \in Intervals(MergeBound) : InsertA(e) /\ UNCHANGED nops
    \/ \E e \in Intervals(MergeBound) : InsertB(e) /\ UNCHANGED nops
    \/ \E op \in Ops : MergeBegin(op) /\ UNCHANGED nops
    \/ SweepIter /\ UNCHANGED nops
    \/ MergeEnd /\ UNCHANGED nops
    \/ last.op # "sweep" /\ Return

SpecSweep == Init /\ [][NextSweep]_vars

-----------------------------------------------------------------------------
(* What the claims speak of *)

\* The integers a sequence of intervals covers
Covers(S) == UNION {S[i][1]..S[i][2] : i \in 1..Len(S)}

\* Sorted by lower bound, disjoint and non-adjacent, every interval valid
Normalized(S) ==
    /\ \A i \in 1..Len(S) : is_valid(S[i]) /\ S[i][2] <= U32_MAX
    /\ \A i \in 1..(Len(S) - 1) : S[i][2] + 1 < S[i + 1][1]

\* The mathematical operation each of the four names stands for
SetOp(op, X, Y) ==
    CASE op = "union"               -> X \cup Y
      [] op = "intersection"        -> X \cap Y
      [] op = "difference"          -> X \ Y
      [] op = "symetric_difference" -> (X \ Y) \cup (Y \ X)

\* hi - lo + 1 as a number
Width(intv) == intv[2] - intv[1] + 1

-----------------------------------------------------------------------------
(* C1 *)

\* C1: every set built from the empty set by insert and by union,
\* intersection, difference and symetric_difference of sets built that way,
\* with every bound at most U32_MAX - 2, is normalized: ascending, and
\* intervals[i].hi + 1 < intervals[i+1].lo for consecutive intervals; no call
\* panics on the way.
C1_BuiltSetsNormalized ==
    /\ Normalized(a)
    /\ Normalized(b)
    /\ ~last.res.panic
    /\ last.op \in Ops \cup {"insert"} => Normalized(last.res.set)

\* A symmetric difference of two built sets that returns two intervals
C1_Witness ==
    /\ last.op = "symetric_difference"
    /\ Len(last.lhs) >= 2
    /\ Len(last.rhs) >= 1
    /\ Len(last.res.set) = 2
    /\ a = last.res.set

-----------------------------------------------------------------------------
(* C2 *)

-----------------------------------------------------------------------------
(* C3 *)

\* The integers of one interval
Range(intv) == intv[1]..intv[2]

\* intv overlaps or touches e: it lies neither before e with a gap nor after
\* e with a gap
Touches(intv, e) == ~(e[1] > intv[2] + 1) /\ ~(e[2] + 1 < intv[1])

Absorbed(S, e) == {S[i] : i \in {j \in 1..Len(S) : Touches(S[j], e)}}
Kept(S, e) == {S[i] : i \in {j \in 1..Len(S) : ~Touches(S[j], e)}}

\* [min lo, max hi] over e and the intervals it absorbs
Hull(S, e) ==
    LET los == {e[1]} \cup {x[1] : x \in Absorbed(S, e)}
        his == {e[2]} \cup {x[2] : x \in Absorbed(S, e)}
    IN  <<CHOOSE m \in los : \A x \in los : m <= x,
          CHOOSE m \in his : \A x \in his : x <= m>>

Elements(S) == {S[i] : i \in 1..Len(S)}

\* C3: for a normalized set S and a valid interval e, all bounds below
\* U32_MAX, S.insert(e) returns, and the set then covers exactly the integers
\* of S and of e: the intervals of S that overlap or touch e are gone and
\* stand in one interval [min lo, max hi] with e, the others are kept as they
\* were.
C3_InsertAbsorbsTouching ==
    last.op = "insert" =>
        /\ ~last.res.panic
        /\ Covers(last.res.set) = Covers(last.lhs) \cup Range(last.arg)
        /\ Elements(last.res.set) = Kept(last.lhs, last.arg) \cup {Hull(last.lhs, last.arg)}
        /\ Len(last.res.set) = Cardinality(Kept(last.lhs, last.arg)) + 1
        /\ Normalized(last.res.set)
        /\ a = last.res.set

\* An element that touches three intervals with gaps between them, and is not
\* itself the interval that results
C3_Witness ==
    /\ last.op = "insert"
    /\ Cardinality(Absorbed(last.lhs, last.arg)) = 3
    /\ Hull(last.lhs, last.arg) # last.arg
    /\ last.res.set = <<Hull(last.lhs, last.arg)>>

-----------------------------------------------------------------------------
(* C4 *)

\* C4: insert never fails given a valid interval, also at the domain
\* maximum: for a normalized set S and e with e.lo <= e.hi <= U32_MAX, whole
\* and sets that hold U32_MAX included, S.insert(e) returns and leaves S
\* normalized and covering S and e.  (The claim also rules out the
\* wrap-around itself; what is stated here is what a caller can see of it.)
C4_InsertTotalAtMaximum ==
    (last.op = "insert" /\ Normalized(last.lhs)) =>
        /\ ~last.res.panic
        /\ Normalized(last.res.set)
        /\ Covers(last.res.set) = Covers(last.lhs) \cup Range(last.arg)

-----------------------------------------------------------------------------
(* C5 *)

\* C5: union, intersection, difference and symetric_difference are total on
\* normalized operands up to the domain maximum: with an interval whose hi is
\* U32_MAX or U32_MAX - 1 among the operands, the operation returns the
\* correct normalized set.
C5_MergeTotalAtMaximum ==
    (last.op \in Ops /\ Normalized(last.lhs) /\ Normalized(last.rhs)) =>
        /\ ~last.res.panic
        /\ Normalized(last.res.set)
        /\ Covers(last.res.set) = SetOp(last.op, Covers(last.lhs), Covers(last.rhs))

-----------------------------------------------------------------------------
(* C6 *)

\* C6: max() returns None exactly when the set is empty; for a non-empty
\* normalized set it returns Some(i), i the first interval in iteration order
\* among those of the greatest range_size.
C6_MaxReturnsGreatest ==
    (last.op = "max" /\ Normalized(last.lhs)) =>
        /\ ~last.res.panic
        /\ (last.res.val = None) <=> (last.lhs = empty)
        /\ last.lhs # empty =>
             \E i \in 1..Len(last.lhs) :
                /\ last.res.val = Some(last.lhs[i])
                /\ \A j \in 1..Len(last.lhs) : Width(last.lhs[j]) <= Width(last.lhs[i])
                /\ \A j \in 1..(i - 1) : Width(last.lhs[j]) < Width(last.lhs[i])

-----------------------------------------------------------------------------
(* C7, C8 *)

\* The sets at hand in a state: the two owned sets and the left operand of
\* the last call
Operands == {a, b, last.lhs}

\* A returned set
Ok(S) == [panic |-> FALSE, ovf |-> FALSE, set |-> S]

\* op applied to the values of two earlier calls; no value when one of them
\* panicked
Then(op, x, y) == IF x.panic \/ y.panic THEN Panicked ELSE merge(build, op, x.set, y.set)

\* Both calls return, and return equal interval sequences
Same(x, y) == ~x.panic /\ ~y.panic /\ x.set = y.set

\* C7: for all normalized sets A, B, C: A.union(B) == B.union(A),
\* A.union(B).union(C) == A.union(B.union(C)) and
\* A.intersection(B) == B.intersection(A), as interval sequences.
C7_UnionIntersectionLaws ==
    \A A \in Operands, B \in Operands, C \in Operands :
        (Normalized(A) /\ Normalized(B) /\ Normalized(C)) =>
            /\ Same(union(build, A, B), union(build, B, A))
            /\ Same(Then("union", union(build, A, B), Ok(C)),
                    Then("union", Ok(A), union(build, B, C)))
            /\ Same(intersection(build, A, B), intersection(build, B, A))

\* C8: for all normalized sets A and B: difference(A, A) is empty;
\* symetric_difference(A, B) == union(difference(A, B), difference(B, A));
\* union(A, empty) == union(empty, A) == A; intersection(A, empty) ==
\* intersection(empty, A) == empty; and with both operands empty each of the
\* four operations returns the empty set without computing a sentinel.
C8_DifferenceAndEmptyLaws ==
    /\ \A op \in Ops : merge(build, op, empty, empty) = Ok(empty)
    /\ \A A \in Operands, B \in Operands :
        (Normalized(A) /\ Normalized(B)) =>
            /\ Same(difference(build, A, A), Ok(empty))
            /\ Same(symetric_difference(build, A, B),
                    Then("union", difference(build, A, B), difference(build, B, A)))
            /\ Same(union(build, A, empty), Ok(A))
            /\ Same(union(build, empty, A), Ok(A))
            /\ Same(intersection(build, A, empty), Ok(empty))
            /\ Same(intersection(build, empty, A), Ok(empty))

-----------------------------------------------------------------------------
(* C9 *)

\* The sum of hi - lo + 1 over the intervals of S
RECURSIVE SumWidth(_)
SumWidth(S) == IF S = << >> THEN 0 ELSE Width(S[1]) + SumWidth(Tail(S))

\* C9: for normalized sets A and B whose sizes and bounds cause no overflow,
\* size(union(A,B)) + size(intersection(A,B)) == size(A) + size(B), size()
\* being the sum of hi - lo + 1 over the intervals and 0 for the empty set.
\* With every bound at most U32_MAX - 2 nothing overflows.
C9_SizeAdditive ==
    LET u  == union(build, a, b)
        i  == intersection(build, a, b)
        su == size(build, u.set)
        si == size(build, i.set)
        sa == size(build, a)
        sb == size(build, b)
    IN  /\ \A r \in {u, i, su, si, sa, sb} : ~r.panic /\ ~r.ovf
        /\ su.val + si.val = sa.val + sb.val
        /\ sa.val = SumWidth(a)
        /\ sb.val = SumWidth(b)
        /\ size(build, empty).val = 0

\* size() was called with two sets at hand that overlap, neither within the
\* other
C9_Witness ==
    /\ last.op = "size"
    /\ last.res.val >= 2
    /\ a = last.lhs
    /\ Covers(a) \cap Covers(b) # {}
    /\ Covers(a) \ Covers(b) # {}
    /\ Covers(b) \ Covers(a) # {}

-----------------------------------------------------------------------------
(* C10 *)

\* A token "n", or "lo-hi" with lo <= hi
WellFormed(token) ==
    \/ token \in NumberTokens(U32_MAX)
    \/ token \in DashTokens(U32_MAX) /\ DigitVal(token[1]) <= DigitVal(token[3])

\* The (lo, hi) pair a well-formed token denotes
Pair(token) ==
    IF Len(token) = 1 THEN <<DigitVal(token[1]), DigitVal(token[1])>>
    ELSE <<DigitVal(token[1]), DigitVal(token[3])>>

Pairs(text) == [k \in 1..Len(text) |-> Pair(text[k])]

\* The integers a text of well-formed tokens denotes
Denotes(text) == UNION {Range(Pair(text[k])) : k \in 1..Len(text)}

Reverse(s) == [k \in 1..Len(s) |-> s[Len(s) + 1 - k]]

\* C10: parsing does not depend on the order of the tokens nor on their
\* overlap: a text of tokens "n" and "lo-hi" parses to the normalized set of
\* the integers it denotes (so two texts that denote the same integers parse
\* to equal sets), to the same set as its tokens in another order, and to the
\* set built from the same (lo,hi) pairs by repeated insert.
C10_ParseIsOrderIndependent ==
    (last.op = "parse" /\ \A k \in 1..Len(last.arg) : WellFormed(last.arg[k])) =>
        /\ ~last.res.panic
        /\ Normalized(last.res.set)
        /\ Covers(last.res.set) = Denotes(last.arg)
        /\ Same(last.res, string_to_interval_set(build, Reverse(last.arg)))
        /\ Same(last.res, vec_to_interval_set(build, Pairs(last.arg)))

-----------------------------------------------------------------------------
(* C11 *)

\* A non-negative integer in decimal: at least one digit, digits only
IsNumber(str) == str # << >> /\ \A i \in 1..Len(str) : IsDigit(str[i])

\* Exactly two non-negative integers joined by one dash
IsDashPair(token) ==
    \E i \in 1..Len(token) :
        /\ token[i] = "-"
        /\ IsNumber(SubSeq(token, 1, i - 1))
        /\ IsNumber(SubSeq(token, i + 1, Len(token)))

\* Neither a single integer nor a dash pair
Malformed(token) == ~IsNumber(token) /\ ~IsDashPair(token)

\* C11: parsing fails, and produces no set, for every text that holds a
\* token which is neither a single non-negative integer nor exactly two
\* non-negative integers joined by one dash: a non-numeric token, or a
\* malformed dash pair such as "5-", "-5" or "1-2-3".
C11_MalformedTokenFails ==
    (last.op = "parse" /\ \E k \in 1..Len(last.arg) : Malformed(last.arg[k])) =>
        /\ last.res.panic
        /\ a = empty

-----------------------------------------------------------------------------
(* C12 *)

\* Some element of the collection has lo > hi
HasInvalid(vec) == \E k \in 1..Len(vec) : vec[k][1] > vec[k][2]

\* C12: construction fails exactly when lo > hi: Interval::new(lo, hi) fails
\* if and only if lo > hi, building a set from a collection of intervals or
\* of (lo, hi) pairs fails if and only if some element has lo > hi, and a
\* failed construction yields no set and leaves the sets built before as
\* they were.
C12_ConstructionFailsIffInvalid ==
    /\ last.op = "new" =>
         /\ last.res.panic <=> (last.arg[1] > last.arg[2])
         /\ ~last.res.panic => last.res.val = last.arg
    /\ last.op \in {"from_vec", "from_tuples"} =>
         /\ last.res.panic <=> HasInvalid(last.arg)
         /\ ~last.res.panic => b = last.res.set
         /\ last.res.panic => b = last.rhs
    /\ last.op \in {"new", "from_vec", "from_tuples"} => a = last.lhs

-----------------------------------------------------------------------------
(* C13 *)

\* The markers lo, hi + 1 of the intervals of S in order, as numbers
RECURSIVE Markers(_)
Markers(S) ==
    IF S = << >> THEN << >> ELSE <<S[1][1], S[1][2] + 1>> \o Markers(Tail(S))

StrictlyAscending(vec) == \A i \in 1..(Len(vec) - 1) : vec[i] < vec[i + 1]

\* [b0, b1 - 1], [b2, b3 - 1], ... for a sequence of markers of even length
Paired(vec) == [k \in 1..(Len(vec) \div 2) |-> <<vec[2 * k - 1], vec[2 * k] - 1>>]

\* C13: unflatten(flatten(S)) == S for any normalized S: flatten gives the
\* markers lo, hi + 1 of the intervals in order (the empty sequence for the
\* empty set), a strictly ascending sequence of even length, and unflatten
\* pairs consecutive markers (b0,b1), (b2,b3), ... into [b0,b1-1],
\* [b2,b3-1], ... and rebuilds exactly S.
C13_UnflattenFlattenIsIdentity ==
    /\ (last.op = "flatten" /\ Normalized(last.lhs)) =>
         /\ ~last.res.panic
         /\ last.res.val = Markers(last.lhs)
         /\ Len(last.res.val) % 2 = 0
         /\ StrictlyAscending(last.res.val)
         /\ last.lhs = empty => last.res.val = << >>
    /\ (last.op = "unflatten" /\ Normalized(last.lhs)) =>
         /\ ~last.res.panic
         /\ last.res.set = Paired(last.arg)
         /\ last.res.set = last.lhs
         /\ a = last.lhs

-----------------------------------------------------------------------------
(* C14 *)

\* The current marker of each side: the value under lhead and under rhead
Lhead == last.arg.lflat[last.res.lpos]
Rhead == last.arg.rflat[last.res.rpos]

\* At the head of the loop: no iterator was exhausted, scan is at most both
\* current markers, and once scan has reached the sentinel both current
\* markers are the sentinel and an even number of boundaries was emitted
SweepInvariant ==
    last.op = "sweep" =>
        /\ ~last.res.panic
        /\ last.res.scan <= Lhead
        /\ last.res.scan <= Rhead
        /\ ~(last.res.scan < last.arg.sentinel) =>
             /\ Lhead = last.arg.sentinel
             /\ Rhead = last.arg.sentinel
             /\ Len(last.res.res) % 2 = 0

\* An iteration of the loop leaves scan greater than it found it
ScanIncreases ==
    (last.op = "sweep" /\ last'.op = "sweep") => last'.res.scan > last.res.scan

\* C14: for two normalized operands that are not both empty, bounds at most
\* U32_MAX - 2, in every iteration of the sweep loop of merge scan is at
\* most both current markers and strictly increases, neither marker
\* iterator is ever exhausted (the two panic branches are not reached), and
\* the loop ends with the current marker of both sides equal to the sentinel
\* and an even number of emitted boundaries.
C14_SweepLoopInvariants == []SweepInvariant /\ [][ScanIncreases]_vars

\* The loop has ended after passing three intervals on the left and one on
\* the right, four boundaries emitted
C14_Witness ==
    /\ last.op = "sweep"
    /\ ~(last.res.scan < last.arg.sentinel)
    /\ Len(last.lhs) = 3
    /\ Len(last.rhs) = 1
    /\ last.res.lpos = 7
    /\ last.res.rpos = 3
    /\ Len(last.res.res) = 4

====
